---------------------------- MODULE Spec2Model ----------------------------
(***************************************************************************)
(* The validating reverse proxy of src/internal_proxy.py: one endpoint,    *)
(* GET or POST, that extracts (start_datetime, end_datetime), validates    *)
(* them, posts the cleaned pair to the internal API with a timeout chosen  *)
(* from the span, and maps the backend's outcome to a JSON response.       *)
(***************************************************************************)
EXTENDS Integers, Sequences, FiniteSets, TLC

(***************************************************************************)
(* Bounds of the model.                                                    *)
(***************************************************************************)
\* timestamps are taken at every tier boundary, and up to MaxDelta seconds
\* on either side of it
MaxDelta == 1
\* how many of the extraneous keys a caller may add to a request
MaxExtra == 1
\* Python's integers are unbounded and its floats are not: n / 3600 raises
\* OverflowError for n beyond some 6.47e311.  TLC's integers are 32 bits
\* wide, so the model compresses the scale: its integers up to MaxFloatSpan
\* stand for themselves, and those beyond it stand for integers beyond that
\* limit (FarFuture below stands for a timestamp such as 10^400).
MaxFloatSpan == 1000000000

(***************************************************************************)
(* JSON values, as json.loads yields them and jsonify serialises them.     *)
(* Each value is tagged with its Python type.  A caller's string is a      *)
(* sequence of characters ("text"), since int() and `in` look inside it;   *)
(* a string the proxy only passes along or emits is an opaque "str".       *)
(***************************************************************************)
JNull == [t |-> "null"]
JInt(n) == [t |-> "int", n |-> n]
\* a finite float, in tenths: JFloat(15) is 1.5
JFloat(tenths) == [t |-> "float", tenths |-> tenths]
\* json.loads("1e999") and json.loads("Infinity")
JInf == [t |-> "inf"]
JNaN == [t |-> "nan"]
JBool(b) == [t |-> "bool", b |-> b]
JText(chars) == [t |-> "text", chars |-> chars]
JStr(s) == [t |-> "str", s |-> s]
JList(items) == [t |-> "list", items |-> items]
JObj(fields) == [t |-> "obj", fields |-> fields]
\* a reply body on which response.json() raises ValueError
NotJson == [t |-> "notjson"]

(***************************************************************************)
(* Python's int(), `not x`, `key in x` and x[key] on those values.         *)
(***************************************************************************)
Ok(n) == [exc |-> "none", n |-> n]
Raised(e) == [exc |-> e]

DigitChars == <<"0", "1", "2", "3", "4", "5", "6", "7", "8", "9">>
IsDigit(c) == \E i \in 1..Len(DigitChars) : DigitChars[i] = c
DigitVal(c) == (CHOOSE i \in 1..Len(DigitChars) : DigitChars[i] = c) - 1

RECURSIVE StripLeft(_)
StripLeft(s) == IF s # <<>> /\ Head(s) = " " THEN StripLeft(Tail(s)) ELSE s

RECURSIVE StripRight(_)
StripRight(s) ==
    IF s # <<>> /\ s[Len(s)] = " " THEN StripRight(SubSeq(s, 1, Len(s) - 1)) ELSE s

\* the value of a run of decimal digits, single underscores allowed between
\* digits; -1 when the run is empty or malformed
RECURSIVE DigitsValue(_, _, _)
DigitsValue(s, acc, prev) ==
    IF s = <<>> THEN (IF prev = "digit" THEN acc ELSE -1)
    ELSE IF IsDigit(Head(s))
         THEN DigitsValue(Tail(s), acc * 10 + DigitVal(Head(s)), "digit")
    ELSE IF Head(s) = "_" /\ prev = "digit"
         THEN DigitsValue(Tail(s), acc, "underscore")
    ELSE -1

\* int(s) for a str: surrounding blanks stripped, an optional sign, digits
PyIntOfText(chars) ==
    LET s == StripRight(StripLeft(chars))
        signed == s # <<>> /\ Head(s) \in {"+", "-"}
        m == DigitsValue(IF signed THEN Tail(s) ELSE s, 0, "start")
    IN  IF m = -1 THEN Raised("ValueError")
        ELSE Ok(IF signed /\ Head(s) = "-" THEN 0 - m ELSE m)

\* int(x) for a float: truncation toward zero
Trunc(tenths) == IF tenths >= 0 THEN tenths \div 10 ELSE 0 - ((0 - tenths) \div 10)

\* int(v)
PyInt(v) ==
    CASE v.t = "int" -> Ok(v.n)
      [] v.t = "bool" -> Ok(IF v.b THEN 1 ELSE 0)
      [] v.t = "float" -> Ok(Trunc(v.tenths))
      [] v.t = "inf" -> Raised("OverflowError")
      [] v.t = "nan" -> Raised("ValueError")
      [] v.t = "text" -> PyIntOfText(v.chars)
      [] OTHER -> Raised("TypeError")

\* `not v`
Falsy(v) ==
    CASE v.t = "null" -> TRUE
      [] v.t = "int" -> v.n = 0
      [] v.t = "float" -> v.tenths = 0
      [] v.t = "bool" -> ~v.b
      [] v.t = "text" -> v.chars = <<>>
      [] v.t = "list" -> v.items = <<>>
      [] v.t = "obj" -> DOMAIN v.fields = {}
      [] OTHER -> FALSE

StartKey == "start_datetime"
EndKey == "end_datetime"
StartKeyChars ==
    <<"s", "t", "a", "r", "t", "_", "d", "a", "t", "e", "t", "i", "m", "e">>
EndKeyChars == <<"e", "n", "d", "_", "d", "a", "t", "e", "t", "i", "m", "e">>
KeyChars(key) == IF key = StartKey THEN StartKeyChars ELSE EndKeyChars

\* substring test of str.__contains__
Contains(chars, sub) ==
    \E i \in 0..(Len(chars) - Len(sub)) : SubSeq(chars, i + 1, i + Len(sub)) = sub

\* `key in data`: "true", "false", or "TypeError" when data is not a container
KeyIn(key, data) ==
    CASE data.t = "obj" -> (IF key \in DOMAIN data.fields THEN "true" ELSE "false")
      [] data.t = "list" ->
           (IF \E i \in 1..Len(data.items) : data.items[i] = JText(KeyChars(key))
            THEN "true" ELSE "false")
      [] data.t = "text" ->
           (IF Contains(data.chars, KeyChars(key)) THEN "true" ELSE "false")
      [] OTHER -> "TypeError"

\* int(data[key]): a list or a str cannot be indexed by a str
PyIntOfItem(data, key) ==
    IF data.t = "obj" THEN PyInt(data.fields[key]) ELSE Raised("TypeError")

(***************************************************************************)
(* proxy_api, up to the outbound call.                                     *)
(***************************************************************************)
MsgMissingBody == "Missing request body"
MsgMissingParams == "Missing required parameters: start_datetime and end_datetime"
MsgInvalidParams ==
    "Invalid parameters: start_datetime and end_datetime must be integers"
MsgInvalidRange ==
    "Invalid time range: start_datetime must be less than or equal to end_datetime"
MsgBadReply == "Invalid response from internal API"
MsgTimeout == "Request timed out. Please try a smaller time range."
MsgUnreachable == "Failed to connect to internal API"
MsgInternal == "Internal server error"

\* the error body, were its key 'message'
ErrorBodyMessageKey(msg) == JObj([message |-> JStr(msg)])

\* jsonify({'error': msg})
ErrorBody(msg) == JObj([error |-> JStr(msg)])

\* what the handler does next: return a response, call the backend, or (while
\* extracting) carry on with the pair, or leave by an exception
Return(status, body) == [kind |-> "return", status |-> status, body |-> body]
Post(json, timeout) == [kind |-> "post", json |-> json, timeout |-> timeout]
Pair(start, end) == [kind |-> "pair", start |-> start, end |-> end]
Raise == [kind |-> "raise"]

\* the int(start), int(end) of either branch under `except (ValueError,
\* TypeError)`: the first conversion that raises decides, and an exception of
\* another class leaves the branch
Converted(s, e) ==
    LET first == IF s.exc = "none" THEN e ELSE s
    IN  CASE first.exc = "none" -> Pair(s.n, e.n)
          [] first.exc \in {"ValueError", "TypeError"} ->
               Return(400, ErrorBody(MsgInvalidParams))
          [] OTHER -> Raise

\* request.args.get(key): the value, or None
ArgsGet(args, key) == IF key \in DOMAIN args THEN JText(args[key]) ELSE JNull

\* the GET branch, were it to convert what is there before asking whether
\* both values are there
FromQueryConvertsFirst(args) ==
    LET start_datetime == ArgsGet(args, StartKey)
        end_datetime == ArgsGet(args, EndKey)
    IN  IF \/ ~Falsy(start_datetime) /\ PyInt(start_datetime).exc # "none"
           \/ ~Falsy(end_datetime) /\ PyInt(end_datetime).exc # "none"
        THEN Return(400, ErrorBody(MsgInvalidParams))
        ELSE IF Falsy(start_datetime) \/ Falsy(end_datetime)
        THEN Return(400, ErrorBody(MsgMissingParams))
        ELSE Converted(PyInt(start_datetime), PyInt(end_datetime))

\* the GET branch
FromQuery(args) ==
    LET start_datetime == ArgsGet(args, StartKey)
        end_datetime == ArgsGet(args, EndKey)
    IN  IF Falsy(start_datetime) \/ Falsy(end_datetime)
        THEN Return(400, ErrorBody(MsgMissingParams))
        ELSE Converted(PyInt(start_datetime), PyInt(end_datetime))

\* request.get_json(): the parsed value, None, or an HTTPException.  A body
\* that does not parse raises BadRequest.  A request whose content type is
\* not JSON yields None or raises UnsupportedMediaType, as the installed
\* Flask has it; the repository pins no version.
GotJson(v) == [raised |-> FALSE, value |-> v]
GetJsonRaised == [raised |-> TRUE]
GetJson(body) ==
    CASE body.kind = "json" -> {GotJson(body.value)}
      [] body.kind = "unparseable" -> {GetJsonRaised}
      [] body.kind = "not_json_mimetype" -> {GotJson(JNull), GetJsonRaised}

\* the POST branch, gj being what request.get_json() did
FromBody(gj) ==
    IF gj.raised THEN Raise
    ELSE LET data == gj.value
             hasStart == KeyIn(StartKey, data)
             hasEnd == KeyIn(EndKey, data)
         IN  IF Falsy(data) THEN Return(400, ErrorBody(MsgMissingBody))
             ELSE IF hasStart = "TypeError" THEN Raise
             ELSE IF hasStart = "false" \/ hasEnd = "false"
                  THEN Return(400, ErrorBody(MsgMissingParams))
             ELSE LET s == PyIntOfItem(data, StartKey)
                  IN  Converted(s, IF s.exc = "none" THEN PyIntOfItem(data, EndKey)
                                                     ELSE s)

\* the comparison with its operands exchanged
InvalidRangeSwapped(start, end) == end > start

\* start_datetime > end_datetime
InvalidRange(start, end) == start > end

\* cleaned_data
CleanedData(start, end) ==
    JObj([start_datetime |-> JInt(start), end_datetime |-> JInt(end)])

\* the comparison, were it strict
HoursBelow(start, end, hours) == end - start < hours * 3600

\* time_range_hours <= hours, where time_range_hours = (end - start) / 3600 is
\* a correctly rounded float quotient: it is <= hours exactly when the
\* integer span is <= hours * 3600
HoursAtMost(start, end, hours) == end - start <= hours * 3600

\* (end_datetime - start_datetime) / 3600 raises OverflowError: the quotient
\* is too large for a float
QuotientOverflows(start, end) ==
    end - start > MaxFloatSpan \/ start - end > MaxFloatSpan

\* the timeout chosen from the time range, were the widest ranges to be given
\* none (0 standing for no timeout)
TimeoutForUnlimited(start, end) ==
    IF HoursAtMost(start, end, 24) THEN 15
    ELSE IF HoursAtMost(start, end, 72) THEN 45
    ELSE IF HoursAtMost(start, end, 168) THEN 90
    ELSE IF HoursAtMost(start, end, 336) THEN 120
    ELSE 0

\* the timeout chosen from the time range
TimeoutFor(start, end) ==
    IF HoursAtMost(start, end, 24) THEN 15
    ELSE IF HoursAtMost(start, end, 72) THEN 45
    ELSE IF HoursAtMost(start, end, 168) THEN 90
    ELSE IF HoursAtMost(start, end, 336) THEN 120
    ELSE 180

\* proxy_api, were it to post the caller's own object instead of cleaned_data
ProxyApiForwardsRaw(request, gj) ==
    LET x == IF request.method = "GET" THEN FromQuery(request.args)
                                         ELSE FromBody(gj)
    IN  CASE x.kind = "raise" -> Return(500, ErrorBody(MsgInternal))
          [] x.kind = "return" -> x
          [] x.kind = "pair" ->
               IF InvalidRange(x.start, x.end)
               THEN Return(400, ErrorBody(MsgInvalidRange))
               ELSE IF QuotientOverflows(x.start, x.end)
               THEN Return(500, ErrorBody(MsgInternal))
               ELSE Post(IF request.method = "GET"
                         THEN JObj([k \in DOMAIN request.args |->
                                       JText(request.args[k])])
                         ELSE gj.value,
                         TimeoutFor(x.start, x.end))

\* proxy_api from its entry to its first return or to requests.post
ProxyApi(request, gj) ==
    LET x == IF request.method = "GET" THEN FromQuery(request.args)
                                         ELSE FromBody(gj)
    IN  CASE x.kind = "raise" -> Return(500, ErrorBody(MsgInternal))
          [] x.kind = "return" -> x
          [] x.kind = "pair" ->
               IF InvalidRange(x.start, x.end)
               THEN Return(400, ErrorBody(MsgInvalidRange))
               ELSE IF QuotientOverflows(x.start, x.end)
               THEN Return(500, ErrorBody(MsgInternal))
               ELSE Post(CleanedData(x.start, x.end), TimeoutFor(x.start, x.end))

(***************************************************************************)
(* The routes, handle_options, and add_cors_headers.                       *)
(***************************************************************************)
\* the view the URL rule of the endpoint gives a method, "none" when no rule
\* of the path lists it
Route(method) ==
    CASE method = "OPTIONS" -> "handle_options"
      [] method \in {"GET", "POST"} -> "proxy_api"
      [] OTHER -> "none"

\* the body '' of handle_options, and the page of an HTTP error Flask itself
\* answers
EmptyBody == [t |-> "empty"]
HtmlBody == [t |-> "html"]

\* handle_options
HandleOptions == Return(200, EmptyBody)

\* Flask's answer to a method no rule of the path lists: 405 Method Not
\* Allowed
MethodNotAllowed == Return(405, HtmlBody)

\* add_cors_headers, the Max-Age header left out
AddCorsHeadersNoMaxAge(headers) ==
    [h \in DOMAIN headers \cup {"Access-Control-Allow-Origin",
                                "Access-Control-Allow-Methods",
                                "Access-Control-Allow-Headers"} |->
        CASE h = "Access-Control-Allow-Origin" -> "*"
          [] h = "Access-Control-Allow-Methods" -> "GET, POST, OPTIONS"
          [] h = "Access-Control-Allow-Headers" ->
               "Content-Type, ngrok-skip-browser-warning"
          [] OTHER -> headers[h]]

\* add_cors_headers: the four headers set on the response's own
AddCorsHeaders(headers) ==
    [h \in DOMAIN headers \cup {"Access-Control-Allow-Origin",
                                "Access-Control-Allow-Methods",
                                "Access-Control-Allow-Headers",
                                "Access-Control-Max-Age"} |->
        CASE h = "Access-Control-Allow-Origin" -> "*"
          [] h = "Access-Control-Allow-Methods" -> "GET, POST, OPTIONS"
          [] h = "Access-Control-Allow-Headers" ->
               "Content-Type, ngrok-skip-browser-warning"
          [] h = "Access-Control-Max-Age" -> "86400"
          [] OTHER -> headers[h]]

\* the headers a response has before add_cors_headers: its content type
OwnHeaders(body) ==
    [h \in {"Content-Type"} |->
        IF body.t \in {"empty", "html"} THEN "text/html; charset=utf-8"
        ELSE "application/json"]

(***************************************************************************)
(* proxy_api after requests.post: the backend's outcome to a response.     *)
(***************************************************************************)
\* the check, were it for a list alone
NormalizedListsOnly(value) ==
    IF value.t = "list" THEN JObj([data |-> value]) ELSE value

\* response_data after the isinstance check
Normalized(value) == IF value.t = "obj" THEN value ELSE JObj([data |-> value])

\* the reply handled with the backend's status kept on a body that is no JSON
OnReplyKeepsStatus(status, body) ==
    IF body = NotJson THEN Return(status, ErrorBody(MsgBadReply))
    ELSE Return(status, Normalized(body))

\* requests.post returned a response
OnReply(status, body) ==
    IF body = NotJson THEN Return(500, ErrorBody(MsgBadReply))
    ELSE Return(status, Normalized(body))

\* requests.post raised requests.Timeout
OnTimeout == Return(408, ErrorBody(MsgTimeout))

\* requests.post raised another requests.RequestException
OnRequestException == Return(503, ErrorBody(MsgUnreachable))

(***************************************************************************)
(* The requests callers send and the outcomes the backend produces.        *)
(***************************************************************************)
\* str(n), as the caller's HTTP library writes a query parameter
RECURSIVE NatChars(_)
NatChars(n) ==
    IF n < 10 THEN <<DigitChars[n + 1]>>
    ELSE Append(NatChars(n \div 10), DigitChars[(n % 10) + 1])
DecimalChars(n) == IF n < 0 THEN <<"-">> \o NatChars(0 - n) ELSE NatChars(n)

\* the upper bounds of the timeout tiers, in hours
TierHours == {24, 72, 168, 336}
Spans ==
    {0, 30 * 3600}
        \cup {h * 3600 + d : h \in TierHours, d \in (0 - MaxDelta)..MaxDelta}
\* a timestamp so far in the future that its distance from the others is
\* beyond what a float holds
FarFuture == 2 * MaxFloatSpan
Timestamps == {0 - 3600, 0, 2000, FarFuture} \cup {1000 + s : s \in Spans}

\* strings that are no decimal integer, and some that are one in disguise
BadTexts ==
    { <<"n", "o", "t", "_", "a", "_", "n", "u", "m", "b", "e", "r">>,
      <<"1", "2", "3", "a", "b", "c">>,
      <<"1", ".", "5">>,
      <<"1", "_", "_", "0">> }
OddTexts == { <<" ", "1", "2", " ">>, <<"+", "5">>, <<"1", "_", "0">> }

\* a field the request does not carry
Absent == [t |-> "absent"]

QueryValues ==
    {JText(DecimalChars(n)) : n \in Timestamps}
        \cup {JText(c) : c \in BadTexts \cup OddTexts \cup {<<>>}}
        \cup {Absent}

BodyValues ==
    {JInt(n) : n \in Timestamps}
        \cup {JText(c) : c \in BadTexts \cup {<<"2", "0", "0", "0">>, <<>>}}
        \cup {JNull, JFloat(15), JFloat(20000), JInf, JNaN, JBool(TRUE),
              JList(<<JInt(1)>>), Absent}

\* keys a caller adds beside the two the proxy reads
ExtraKeyNames == <<"sql", "__proto__", "../../etc/passwd">>
ExtraKeys ==
    {ExtraKeyNames[i] : i \in 1..(IF MaxExtra < Len(ExtraKeyNames)
                                  THEN MaxExtra ELSE Len(ExtraKeyNames))}
ExtraValue(key) ==
    CASE key = "sql" -> JText(<<"'", " ", "O", "R", " ", "'", "1", "'", "=", "'", "1">>)
      [] key = "__proto__" -> JObj([admin |-> JBool(TRUE)])
      [] OTHER -> JText(<<"f", "i", "l", "e">>)

\* the mapping a caller sends: the two fields, unless absent, and the extras
Fields(sv, ev, extras) ==
    LET keys == (IF sv = Absent THEN {} ELSE {StartKey})
                    \cup (IF ev = Absent THEN {} ELSE {EndKey}) \cup extras
    IN  [k \in keys |-> IF k = StartKey THEN sv
                        ELSE IF k = EndKey THEN ev ELSE ExtraValue(k)]

GetRequest(args) == [method |-> "GET", args |-> args]
PostRequest(body) == [method |-> "POST", body |-> body]
JsonBody(v) == [kind |-> "json", value |-> v]

\* in a query string every value is a string
ExtraChars(key) ==
    IF ExtraValue(key).t = "text" THEN ExtraValue(key).chars ELSE <<"x">>

GetRequests ==
    {GetRequest([k \in DOMAIN f |-> IF k \in {StartKey, EndKey} THEN f[k].chars
                                    ELSE ExtraChars(k)]) :
        f \in {Fields(sv, ev, x) : sv \in QueryValues, ev \in QueryValues,
                                   x \in SUBSET ExtraKeys}}

\* JSON bodies that are no object
OtherJson ==
    {JNull, JInt(0), JInt(5), JFloat(15), JBool(TRUE), JBool(FALSE), JInf,
     JList(<<>>), JList(<<JInt(1)>>),
     JList(<<JText(StartKeyChars), JText(EndKeyChars)>>),
     JText(<<>>), JText(<<"a", "b", "c">>),
     JText(StartKeyChars \o <<",">> \o EndKeyChars)}

PostRequests ==
    {PostRequest(JsonBody(JObj(Fields(sv, ev, x)))) :
        sv \in BodyValues, ev \in BodyValues, x \in SUBSET ExtraKeys}
        \cup {PostRequest(JsonBody(v)) : v \in OtherJson}
        \cup {PostRequest([kind |-> "unparseable"]),
              PostRequest([kind |-> "not_json_mimetype"])}

\* a pre-flight request, and requests by methods the endpoint has no rule for
OptionsRequest == [method |-> "OPTIONS"]
OtherMethodRequests ==
    {[method |-> m, body |-> JsonBody(JObj(Fields(JInt(1000), JInt(2000), {})))] :
        m \in {"PUT", "DELETE"}}

Requests ==
    GetRequests \cup PostRequests \cup {OptionsRequest} \cup OtherMethodRequests

\* what response.json() can meet in a reply
ReplyBodies ==
    {JObj(<<>>), JObj([data |-> JList(<<JInt(1)>>)]),
     JObj([error |-> JStr("backend failure")]),
     JList(<<>>), JList(<<JInt(1), JInt(2)>>), JInt(0), JStr("ok"), JNull,
     NotJson}
ReplyStatuses == {200, 404, 408, 503}

(***************************************************************************)
(* The state: one slot per request in flight.                              *)
(***************************************************************************)
Reqs == {"r1", "r2"}
None == [kind |-> "none"]

VARIABLES
    pc,         \* where each request is: "idle", "received", "waiting", "done"
    request,    \* the inbound request, or None
    outbound,   \* the call to the internal API the handler issued, or None
    calls,      \* how many calls to the internal API the handler issued
    backend,    \* what became of the outbound call, or None
    responses,  \* the responses the handler returned, in order
    headers     \* the headers of the response sent, or None

vars == <<pc, request, outbound, calls, backend, responses, headers>>

Init ==
    /\ pc = [r \in Reqs |-> "idle"]
    /\ request = [r \in Reqs |-> None]
    /\ outbound = [r \in Reqs |-> None]
    /\ calls = [r \in Reqs |-> 0]
    /\ backend = [r \in Reqs |-> None]
    /\ responses = [r \in Reqs |-> <<>>]
    /\ headers = [r \in Reqs |-> None]

\* a caller sends a request
Receive(r, q) ==
    /\ pc' = [pc EXCEPT ![r] = "received"]
    /\ request' = [request EXCEPT ![r] = q]
    /\ UNCHANGED <<outbound, calls, backend, responses, headers>>

\* the view returns a response, were it kept in a name all threads share:
\* a request answered before and not yet sent is given this response too
RespondShared(r, ret) ==
    /\ pc' = [pc EXCEPT ![r] = "done"]
    /\ responses' = [o \in Reqs |->
           IF o = r THEN Append(responses[o], [status |-> ret.status,
                                               body |-> ret.body])
           ELSE IF pc[o] = "done" THEN <<[status |-> ret.status, body |-> ret.body]>>
           ELSE responses[o]]
    /\ headers' = [headers EXCEPT ![r] = AddCorsHeaders(OwnHeaders(ret.body))]

\* the view returns a response, and add_cors_headers runs on it
Respond(r, ret) ==
    /\ pc' = [pc EXCEPT ![r] = "done"]
    /\ responses' = [responses EXCEPT ![r] = Append(@, [status |-> ret.status,
                                                        body |-> ret.body])]
    /\ headers' = [headers EXCEPT ![r] = AddCorsHeaders(OwnHeaders(ret.body))]

\* requests.post is issued, were the handler to lengthen the timeout by the
\* calls of earlier requests it remembers
ForwardBacksOff(r, post) ==
    /\ pc' = [pc EXCEPT ![r] = "waiting"]
    /\ outbound' = [outbound EXCEPT ![r] =
           [json |-> post.json,
            timeout |-> post.timeout
                * (1 + Cardinality({o \in Reqs \ {r} : outbound[o] # None}))]]
    /\ calls' = [calls EXCEPT ![r] = @ + 1]

\* requests.post(internal_api_url, json=..., timeout=...) is issued
Forward(r, post) ==
    /\ pc' = [pc EXCEPT ![r] = "waiting"]
    /\ outbound' = [outbound EXCEPT ![r] = [json |-> post.json,
                                            timeout |-> post.timeout]]
    /\ calls' = [calls EXCEPT ![r] = @ + 1]

\* the request is dispatched: handle_options or Flask's 405 answer at once;
\* proxy_api runs from its entry to its first return, or to requests.post
Handle(r) ==
    /\ pc[r] = "received"
    /\ IF Route(request[r].method) = "proxy_api"
       THEN \* the GET branch does not call request.get_json(): gj is then
            \* unused
            \E gj \in (IF request[r].method = "POST"
                        THEN GetJson(request[r].body) ELSE {GetJsonRaised}) :
               \E next \in {ProxyApi(request[r], gj)} :
                   IF next.kind = "post"
                   THEN Forward(r, next)
                        /\ UNCHANGED <<request, backend, responses, headers>>
                   ELSE Respond(r, next)
                        /\ UNCHANGED <<request, outbound, calls, backend>>
       ELSE Respond(r, IF Route(request[r].method) = "handle_options"
                       THEN HandleOptions ELSE MethodNotAllowed)
            /\ UNCHANGED <<request, outbound, calls, backend>>

\* the internal API replies within the timeout
BackendReplies(r, status, body) ==
    /\ pc[r] = "waiting"
    /\ backend' = [backend EXCEPT ![r] = [kind |-> "reply", status |-> status,
                                          body |-> body]]
    /\ Respond(r, OnReply(status, body))
    /\ UNCHANGED <<request, outbound, calls>>

\* the timeout elapses first, were the handler to post again
BackendTimesOutRetried(r) ==
    /\ pc[r] = "waiting"
    /\ backend' = [backend EXCEPT ![r] = [kind |-> "timeout"]]
    /\ calls' = [calls EXCEPT ![r] = @ + 1]
    /\ UNCHANGED <<pc, request, outbound, responses, headers>>

\* the timeout elapses first: requests.post was given one
BackendTimesOut(r) ==
    /\ pc[r] = "waiting"
    /\ outbound[r].timeout > 0
    /\ backend' = [backend EXCEPT ![r] = [kind |-> "timeout"]]
    /\ Respond(r, OnTimeout)
    /\ UNCHANGED <<request, outbound, calls>>

\* the connection to the internal API fails
BackendUnreachable(r) ==
    /\ pc[r] = "waiting"
    /\ backend' = [backend EXCEPT ![r] = [kind |-> "unreachable"]]
    /\ Respond(r, OnRequestException)
    /\ UNCHANGED <<request, outbound, calls>>

\* the response is on its way and nothing of the request remains
Finish(r) ==
    /\ pc[r] = "done"
    /\ pc' = [pc EXCEPT ![r] = "idle"]
    /\ request' = [request EXCEPT ![r] = None]
    /\ outbound' = [outbound EXCEPT ![r] = None]
    /\ calls' = [calls EXCEPT ![r] = 0]
    /\ backend' = [backend EXCEPT ![r] = None]
    /\ responses' = [responses EXCEPT ![r] = <<>>]
    /\ headers' = [headers EXCEPT ![r] = None]

\* callers that send one request at a time: a request is sent when none is
\* in flight
OthersIdle(r) == \A o \in Reqs : pc[o] = "idle"

Next ==
    \E r \in Reqs :
        \/ OthersIdle(r) /\ \E q \in Requests : Receive(r, q)
        \/ Handle(r)
        \/ \E status \in ReplyStatuses, body \in ReplyBodies :
               BackendReplies(r, status, body)
        \/ BackendTimesOut(r)
        \/ BackendUnreachable(r)
        \/ Finish(r)

Spec == Init /\ [][Next]_vars

(***************************************************************************)
(* Reading a state: what the caller supplied, what went out, what came     *)
(* back.                                                                   *)
(***************************************************************************)
\* the request carries a mapping of keys to values: a query string, or a JSON
\* object
IsMapping(q) ==
    \/ q.method = "GET"
    \/ q.method = "POST" /\ q.body.kind = "json" /\ q.body.value.t = "obj"

\* the request is one proxy_api handles
Proxied(q) == q.method \in {"GET", "POST"}

\* the value the caller supplied under a key, or Absent
Supplied(q, key) ==
    IF q.method = "GET"
    THEN (IF key \in DOMAIN q.args THEN JText(q.args[key]) ELSE Absent)
    ELSE (IF key \in DOMAIN q.body.value.fields THEN q.body.value.fields[key]
                                                 ELSE Absent)

\* the keys the caller supplied
SuppliedKeys(q) ==
    IF q.method = "GET" THEN DOMAIN q.args ELSE DOMAIN q.body.value.fields

\* int() accepts the value
Convertible(v) == v # Absent /\ PyInt(v).exc = "none"

Active(r) == pc[r] # "idle"
Called(r) == outbound[r] # None
OutStart(r) == outbound[r].json.fields[StartKey].n
OutEnd(r) == outbound[r].json.fields[EndKey].n
Response(status, body) == [status |-> status, body |-> body]
ErrorResponse(status, msg) == Response(status, JObj([error |-> JStr(msg)]))

(***************************************************************************)
(* The claims.                                                             *)
(***************************************************************************)

\* C1: whenever a call to the internal API has been issued for a pair
\* start <= end, its timeout is the first tier that covers the span in
\* seconds: up to 86400 s (24 h) 15, up to 259200 s (72 h) 45, up to 604800 s
\* (168 h) 90, up to 1209600 s (336 h) 120, beyond that 180; the bounds are
\* inclusive, and the 30 h span from 1000 gets 45.
C1_TimeoutTier ==
    \A r \in Reqs :
        Called(r) =>
            LET span == OutEnd(r) - OutStart(r)
            IN  /\ span >= 0
                /\ outbound[r].timeout =
                       (CASE span <= 86400 -> 15
                          [] span > 86400 /\ span <= 259200 -> 45
                          [] span > 259200 /\ span <= 604800 -> 90
                          [] span > 604800 /\ span <= 1209600 -> 120
                          [] OTHER -> 180)
                /\ (OutStart(r) = 1000 /\ OutEnd(r) = 1000 + 30 * 3600
                        => outbound[r].timeout = 45)

\* a call went out for a span of exactly 24 h, and waits with the timeout set
C1_Witness ==
    \E r \in Reqs :
        /\ Called(r)
        /\ pc[r] = "waiting"
        /\ OutEnd(r) - OutStart(r) = 86400
        /\ outbound[r].timeout = 15

\* C2: the body of every outbound call has exactly the keys start_datetime
\* and end_datetime, each holding the integer the caller's value converted
\* to; no other key of the caller's request is in it.
C2_OutboundBodyIsCleaned ==
    \A r \in Reqs :
        Called(r) =>
            LET q == request[r]
                out == outbound[r].json
            IN  /\ out.t = "obj"
                /\ DOMAIN out.fields = {StartKey, EndKey}
                /\ \A k \in SuppliedKeys(q) \ {StartKey, EndKey} :
                       k \notin DOMAIN out.fields
                /\ \A k \in {StartKey, EndKey} :
                       /\ Convertible(Supplied(q, k))
                       /\ out.fields[k] = JInt(PyInt(Supplied(q, k)).n)

\* a request that carried an extraneous key was forwarded
C2_Witness ==
    \E r \in Reqs :
        /\ Called(r)
        /\ SuppliedKeys(request[r]) \ {StartKey, EndKey} # {}
        /\ request[r].method = "POST"

\* C3: a request, GET or POST, whose two values convert to integers with
\* start > end issues no outbound call and is answered 400 with the invalid
\* time range error; and no outbound call carries start_datetime >
\* end_datetime.
C3_StartAfterEndRejected ==
    \A r \in Reqs :
        /\ Called(r) => OutStart(r) <= OutEnd(r)
        /\ Active(r) /\ IsMapping(request[r]) =>
               LET s == Supplied(request[r], StartKey)
                   e == Supplied(request[r], EndKey)
               IN  Convertible(s) /\ Convertible(e) /\ PyInt(s).n > PyInt(e).n =>
                       /\ calls[r] = 0
                       /\ ~Called(r)
                       /\ pc[r] # "waiting"
                       /\ pc[r] = "done" =>
                              responses[r] = <<ErrorResponse(400, MsgInvalidRange)>>

\* the request of the example, start 2000 and end 1000, has been answered
C3_Witness ==
    \E r \in Reqs :
        /\ pc[r] = "done"
        /\ IsMapping(request[r])
        /\ Supplied(request[r], StartKey) = JInt(2000)
        /\ Supplied(request[r], EndKey) = JInt(1000)
        /\ responses[r] = <<ErrorResponse(400, MsgInvalidRange)>>

\* the request supplies a value under the key, and int() rejects it
Inconvertible(q, key) ==
    Supplied(q, key) # Absent /\ PyInt(Supplied(q, key)).exc # "none"

\* C4: a request in which either field holds a value that does not convert
\* to an integer issues no outbound call and is answered 400, whatever the
\* other field holds.
C4_InconvertibleRejected ==
    \A r \in Reqs :
        Active(r) /\ IsMapping(request[r])
            /\ (Inconvertible(request[r], StartKey)
                    \/ Inconvertible(request[r], EndKey)) =>
            /\ calls[r] = 0
            /\ pc[r] # "waiting"
            /\ pc[r] = "done" =>
                   /\ Len(responses[r]) = 1
                   /\ responses[r][1].status = 400

\* the field a request names as missing: the key is absent, or (in a JSON
\* body) its value is null
Missing(q, key) == Supplied(q, key) \in {Absent, JNull}

\* C5: a request, GET or POST, in which either field is missing (the key is
\* absent, or its value is null) issues no outbound call and is answered 400
\* with the missing parameters error.  Stated for the requests that carry at
\* least one key; the POST of the empty object is the subject of C6.
C5_MissingRejected ==
    \A r \in Reqs :
        Active(r) /\ IsMapping(request[r]) /\ SuppliedKeys(request[r]) # {}
            /\ (Missing(request[r], StartKey) \/ Missing(request[r], EndKey)) =>
            /\ calls[r] = 0
            /\ pc[r] # "waiting"
            /\ pc[r] = "done" =>
                   responses[r] = <<ErrorResponse(400, MsgMissingParams)>>

\* C6: a POST whose body is the empty JSON object is answered 400 with the
\* missing parameters error.
C6_EmptyObjectMissingParams ==
    \A r \in Reqs :
        pc[r] = "done" /\ request[r] = PostRequest(JsonBody(JObj(<<>>))) =>
            responses[r] = <<ErrorResponse(400, MsgMissingParams)>>

\* C7: a POST whose body is absent or does not parse as JSON issues no
\* outbound call and is answered 400 with the missing body error, never with
\* a 5xx status.
C7_NoBodyIs400 ==
    \A r \in Reqs :
        Active(r) /\ request[r].method = "POST" /\ request[r].body.kind # "json" =>
            /\ calls[r] = 0
            /\ pc[r] # "waiting"
            /\ pc[r] = "done" =>
                   responses[r] = <<ErrorResponse(400, MsgMissingBody)>>

\* C8: no request has more than one outbound call issued for it, nor more
\* than one response; when the outbound call timed out, the one call is
\* followed by the one response, 408 with the timeout error.
C8_OneCallOneResponse ==
    \A r \in Reqs :
        /\ calls[r] <= 1
        /\ Len(responses[r]) <= 1
        /\ backend[r].kind = "timeout" =>
               /\ calls[r] = 1
               /\ pc[r] = "done"
               /\ responses[r] = <<ErrorResponse(408, MsgTimeout)>>

\* the outbound call of a request timed out and the request is answered
C8_Witness ==
    \E r \in Reqs :
        /\ pc[r] = "done"
        /\ backend[r].kind = "timeout"
        /\ calls[r] = 1
        /\ Len(responses[r]) = 1 /\ responses[r][1].status = 408

\* C9: once a request is forwarded, a connection failure is answered 503 and
\* a reply that is no JSON is answered 500, whatever status the reply had,
\* each with a body {error: message}.
C9_BackendFailures ==
    \A r \in Reqs :
        /\ backend[r].kind = "unreachable" =>
               /\ calls[r] = 1
               /\ responses[r] = <<ErrorResponse(503, MsgUnreachable)>>
        /\ backend[r].kind = "reply" /\ backend[r].body = NotJson =>
               /\ calls[r] = 1
               /\ responses[r] = <<ErrorResponse(500, MsgBadReply)>>

\* a reply with status 404 and a body that is no JSON has been answered 500
C9_Witness ==
    \E r \in Reqs :
        /\ pc[r] = "done"
        /\ backend[r] = [kind |-> "reply", status |-> 404, body |-> NotJson]
        /\ responses[r][1].status = 500
        /\ DOMAIN responses[r][1].body.fields = {"error"}

\* C10: a reply whose body parses as JSON is answered with the backend's
\* status, whatever it is, and with the parsed value itself when it is an
\* object, with {"data": value} when it is a list, a number, a string, a
\* boolean or null.
C10_ReplyNormalized ==
    \A r \in Reqs :
        backend[r].kind = "reply" /\ backend[r].body # NotJson =>
            LET value == backend[r].body
            IN  /\ Len(responses[r]) = 1
                /\ responses[r][1].status = backend[r].status
                /\ value.t = "obj" => responses[r][1].body = value
                /\ value.t \in {"list", "int", "float", "str", "bool", "null"} =>
                       /\ responses[r][1].body.t = "obj"
                       /\ DOMAIN responses[r][1].body.fields = {"data"}
                       /\ responses[r][1].body.fields["data"] = value

\* a reply with status 404 and the bare number 0 has been answered
C10_Witness ==
    \E r \in Reqs :
        /\ pc[r] = "done"
        /\ backend[r] = [kind |-> "reply", status |-> 404, body |-> JInt(0)]
        /\ responses[r] = <<Response(404, JObj([data |-> JInt(0)]))>>

\* C11: an OPTIONS request issues no outbound call and meets no outcome of
\* the backend, whatever the backend would do; it is answered once, with
\* status 200, an empty body, and the four CORS headers: Allow-Origin *,
\* Allow-Methods 'GET, POST, OPTIONS', Allow-Headers, Max-Age 86400.
C11_OptionsAnswered ==
    \A r \in Reqs :
        Active(r) /\ request[r].method = "OPTIONS" =>
            /\ calls[r] = 0
            /\ outbound[r] = None
            /\ backend[r] = None
            /\ pc[r] # "waiting"
            /\ pc[r] = "done" =>
                   /\ Len(responses[r]) = 1
                   /\ responses[r][1].status = 200
                   /\ responses[r][1].body.t = "empty"
                   /\ {"Access-Control-Allow-Origin", "Access-Control-Allow-Methods",
                       "Access-Control-Allow-Headers", "Access-Control-Max-Age"}
                          \subseteq DOMAIN headers[r]
                   /\ headers[r]["Access-Control-Allow-Origin"] = "*"
                   /\ headers[r]["Access-Control-Allow-Methods"] = "GET, POST, OPTIONS"
                   /\ headers[r]["Access-Control-Allow-Headers"] =
                          "Content-Type, ngrok-skip-browser-warning"
                   /\ headers[r]["Access-Control-Max-Age"] = "86400"

\* an OPTIONS request has been answered
C11_Witness ==
    \E r \in Reqs :
        /\ pc[r] = "done"
        /\ request[r].method = "OPTIONS"
        /\ responses[r][1].status = 200
        /\ headers[r] # None

\* the request was handled by proxy_api and did not end in a parsed reply of
\* the backend
Failed(r) ==
    /\ pc[r] = "done"
    /\ Proxied(request[r])
    /\ ~(backend[r].kind = "reply" /\ backend[r].body # NotJson)

\* C12: every failure of a GET or POST request (missing body, missing
\* parameter, invalid type, invalid range, backend timeout, backend
\* unreachable, malformed reply, unexpected internal failure) ends in exactly
\* one response, whose body is the JSON object {"error": "<message>"}, with
\* the status and the message of its kind.
C12_FailuresAnswered ==
    \A r \in Reqs :
        /\ pc[r] = "done" => Len(responses[r]) = 1
        /\ Failed(r) =>
               /\ responses[r][1].body.t = "obj"
               /\ DOMAIN responses[r][1].body.fields = {"error"}
               /\ responses[r][1].body.fields["error"].t = "str"
               /\ <<responses[r][1].status, responses[r][1].body.fields["error"].s>>
                      \in {<<400, MsgMissingBody>>, <<400, MsgMissingParams>>,
                           <<400, MsgInvalidParams>>, <<400, MsgInvalidRange>>,
                           <<408, MsgTimeout>>, <<503, MsgUnreachable>>,
                           <<500, MsgBadReply>>, <<500, MsgInternal>>}

\* a request met an unexpected failure inside the handler and was answered
C12_Witness ==
    \E r \in Reqs :
        /\ Failed(r)
        /\ backend[r] = None
        /\ responses[r] = <<ErrorResponse(500, MsgInternal)>>

\* the value the caller supplied is an integer: a JSON integer, or (in a
\* query string) its decimal digits
IsInteger(v) ==
    \/ v.t = "int"
    \/ v.t = "text" /\ PyIntOfText(v.chars).exc = "none"
           /\ v.chars = DecimalChars(PyIntOfText(v.chars).n)

\* C13: whatever the timestamps of an integer pair with start <= end are
\* (equal, zero, negative, far in the past, far in the future), the request
\* passes validation and is forwarded to the backend with exactly the values
\* supplied.
C13_AnyTimestampsForwarded ==
    \A r \in Reqs :
        Active(r) /\ IsMapping(request[r]) =>
            LET s == Supplied(request[r], StartKey)
                e == Supplied(request[r], EndKey)
            IN  IsInteger(s) /\ IsInteger(e) /\ PyInt(s).n <= PyInt(e).n
                    /\ pc[r] \in {"waiting", "done"} =>
                    /\ calls[r] = 1
                    /\ outbound[r] # None
                    /\ outbound[r].json = JObj([start_datetime |-> JInt(PyInt(s).n),
                                                end_datetime |-> JInt(PyInt(e).n)])


\* the request carries an integer pair with start <= end: in the query string
\* of a GET, in the JSON body of any other method
CarriesValidPair(q) ==
    /\ q.method = "GET" \/ (q.method # "OPTIONS" /\ q.body.kind = "json"
                                /\ q.body.value.t = "obj")
    /\ IsInteger(Supplied(q, StartKey))
    /\ IsInteger(Supplied(q, EndKey))
    /\ PyInt(Supplied(q, StartKey)).n <= PyInt(Supplied(q, EndKey)).n

\* C14: a request by a method other than POST is rejected: a GET carrying
\* valid start_datetime and end_datetime query parameters is answered with a
\* status other than 200, and so is a PUT carrying a valid JSON body.
C14_OnlyPostAccepted ==
    \A r \in Reqs :
        pc[r] = "done" /\ request[r].method \in {"GET", "PUT"}
            /\ CarriesValidPair(request[r]) =>
            /\ Len(responses[r]) = 1
            /\ responses[r][1].status # 200


(***************************************************************************)
(* Requests one after another: the next is sent once the earlier one has   *)
(* been answered, and what became of the earlier one is still on record.   *)
(***************************************************************************)
\* a handful of the requests above
FewRequests ==
    {PostRequest(JsonBody(JObj(Fields(JInt(1000), ev, {})))) :
        ev \in {JInt(2000), JInt(1000 + 30 * 3600), JInt(FarFuture), JInt(0),
                JNull}}
        \cup {GetRequest([start_datetime |-> DecimalChars(0),
                          end_datetime |-> DecimalChars(0)])}
        \cup {OptionsRequest}

OthersAnswered(r) ==
    pc[r] = "idle" /\ \A o \in Reqs \ {r} : pc[o] \in {"idle", "done"}

NextSeq ==
    \E r \in Reqs :
        \/ OthersAnswered(r) /\ \E q \in FewRequests : Receive(r, q)
        \/ Handle(r)
        \/ \E status \in ReplyStatuses, body \in ReplyBodies :
               BackendReplies(r, status, body)
        \/ BackendTimesOut(r)
        \/ BackendUnreachable(r)
        \/ Finish(r)

SpecSeq == Init /\ [][NextSeq]_vars

\* C15: the same valid request issued twice, one after the other, produces
\* two separate outbound calls with the same timeout and the same body, and,
\* the backend behaving the same towards both, two identical responses: the
\* earlier request leaves no trace in the later one.
C15_SameRequestSameOutcome ==
    \A r \in Reqs : \A o \in Reqs \ {r} :
        Active(r) /\ Active(o) /\ request[r] = request[o]
            /\ Proxied(request[r]) /\ CarriesValidPair(request[r]) =>
            /\ Called(r) /\ Called(o) =>
                  /\ outbound[r] = outbound[o]
                  /\ calls[r] = 1 /\ calls[o] = 1
            /\ pc[r] = "done" /\ pc[o] = "done" /\ backend[r] = backend[o] =>
                  /\ calls[r] = calls[o]
                  /\ outbound[r] = outbound[o]
                  /\ responses[r] = responses[o]
                  /\ headers[r] = headers[o]

\* the same valid request was answered twice, after the same reply of the
\* backend to each of its two calls
C15_Witness ==
    \E r \in Reqs : \E o \in Reqs \ {r} :
        /\ pc[r] = "done" /\ pc[o] = "done"
        /\ request[r] = request[o]
        /\ CarriesValidPair(request[r])
        /\ calls[r] = 1 /\ calls[o] = 1
        /\ backend[r] = backend[o]
        /\ backend[r].kind = "reply"
        /\ responses[r] = responses[o]


\* a JSON value that is no integer: a number with a fractional part, or a
\* boolean
Fractional(v) == v.t = "float" /\ v.tenths % 10 # 0
NotAnInteger(v) == Fractional(v) \/ v.t = "bool"

\* C16: a value passes the type gate only if it converts to an integer
\* without loss: whenever a request is forwarded, no outbound value is a
\* truncation or coercion of what the caller supplied, and a POST holding a
\* number with a fractional part or a boolean in either field issues no
\* outbound call and, the other field holding an integer or such a value too,
\* is answered 400 with the invalid parameter error.
C16_LosslessOnly ==
    \A r \in Reqs :
        Active(r) /\ IsMapping(request[r]) =>
            LET q == request[r]
            IN  /\ Called(r) =>
                       \A k \in {StartKey, EndKey} : ~NotAnInteger(Supplied(q, k))
                /\ q.method = "POST"
                       /\ (\E k \in {StartKey, EndKey} : NotAnInteger(Supplied(q, k))) =>
                       /\ calls[r] = 0
                       /\ pc[r] = "done"
                              /\ (\A k \in {StartKey, EndKey} :
                                     IsInteger(Supplied(q, k))
                                         \/ NotAnInteger(Supplied(q, k))) =>
                              responses[r] = <<ErrorResponse(400, MsgInvalidParams)>>


\* C17: the gates run in a fixed order and the first failure decides the
\* response: presence before conversion, conversion of both fields before
\* the comparison.  A request with one field absent and the other holding a
\* value that does not convert is answered with the missing parameter error,
\* and a request with such a value in either field is never answered with
\* the invalid time range error, whatever the other field holds.
C17_GatesInOrder ==
    \A r \in Reqs :
        pc[r] = "done" /\ IsMapping(request[r]) =>
            LET q == request[r]
            IN  /\ (\E k \in {StartKey, EndKey} :
                        /\ Supplied(q, k) = Absent
                        /\ \E o \in {StartKey, EndKey} \ {k} : Inconvertible(q, o)) =>
                       responses[r] = <<ErrorResponse(400, MsgMissingParams)>>
                /\ (\E k \in {StartKey, EndKey} : Inconvertible(q, k)) =>
                       responses[r] # <<ErrorResponse(400, MsgInvalidRange)>>

\* a GET without start_datetime and with an end_datetime that is no number
\* has been answered with the missing parameter error
C17_Witness ==
    \E r \in Reqs :
        /\ pc[r] = "done"
        /\ request[r].method = "GET"
        /\ Supplied(request[r], StartKey) = Absent
        /\ Inconvertible(request[r], EndKey)
        /\ responses[r] = <<ErrorResponse(400, MsgMissingParams)>>


(***************************************************************************)
(* Requests handled at the same time: the server runs each request in a    *)
(* thread of its own, and a request may arrive while others are in flight. *)
(***************************************************************************)
\* a span beyond the last tier, and some requests in flight together
WideSpan == 337 * 3600
ConcurrentRequests ==
    FewRequests
        \cup {PostRequest(JsonBody(JObj(Fields(JInt(1000), JInt(1000 + WideSpan), {}))))}

NextConc ==
    \E r \in Reqs :
        \/ pc[r] = "idle" /\ \E q \in ConcurrentRequests : Receive(r, q)
        \/ Handle(r)
        \/ \E status \in ReplyStatuses, body \in ReplyBodies :
               BackendReplies(r, status, body)
        \/ BackendTimesOut(r)
        \/ BackendUnreachable(r)
        \/ Finish(r)

SpecConc == Init /\ [][NextConc]_vars

\* the thread of a request runs on, and the clock of an outbound call that
\* was given a timeout runs out unless the call ends before; nothing obliges
\* the backend to reply or to refuse
LiveSpec ==
    /\ SpecConc
    /\ \A r \in Reqs : WF_vars(Handle(r)) /\ WF_vars(BackendTimesOut(r))

\* C18: the forwarding step never blocks for ever: every GET or POST request
\* received is eventually answered with exactly one response, whatever the
\* backend does (it replies, the connection fails, or it never replies); when
\* it never replies the response is the timeout response, 408.
C18_EventuallyAnswered ==
    \A r \in Reqs :
        (pc[r] = "received" /\ Proxied(request[r]))
            ~> (/\ pc[r] = "done"
                /\ Len(responses[r]) = 1
                /\ (backend[r] = [kind |-> "timeout"] =>
                        responses[r] = <<ErrorResponse(408, MsgTimeout)>>))

\* a call with the longest timeout got no reply, and the request was
\* answered 408
C18_Witness ==
    \E r \in Reqs :
        /\ pc[r] = "done"
        /\ Called(r)
        /\ outbound[r].timeout = 180
        /\ backend[r] = [kind |-> "timeout"]
        /\ Len(responses[r]) = 1
        /\ responses[r][1].status = 408


\* all there is of one request
Slot(r) ==
    <<pc[r], request[r], outbound[r], calls[r], backend[r], responses[r],
      headers[r]>>

\* what a request sends out and returns is its own: the outbound body holds
\* its own two values and the timeout is the one of its own span, and two
\* requests in flight with the same input agree on the outbound call and,
\* after the same backend outcome, on the response
C19_OwnInputOnly ==
    \A r \in Reqs :
        /\ Called(r) =>
               /\ OutStart(r) = PyInt(Supplied(request[r], StartKey)).n
               /\ OutEnd(r) = PyInt(Supplied(request[r], EndKey)).n
               /\ outbound[r].timeout = TimeoutFor(OutStart(r), OutEnd(r))
        /\ \A o \in Reqs \ {r} :
               Active(r) /\ Active(o) /\ request[r] = request[o] =>
                   /\ Called(r) /\ Called(o) => outbound[r] = outbound[o]
                   /\ pc[r] = "done" /\ pc[o] = "done" /\ backend[r] = backend[o] =>
                          calls[r] = calls[o] /\ responses[r] = responses[o]

\* a step of one request leaves every other request as it was
C19_OneSlotPerStep ==
    \A r \in Reqs :
        Slot(r)' # Slot(r) => \A o \in Reqs \ {r} : Slot(o)' = Slot(o)

\* C19: when several requests are handled at the same time, under every
\* interleaving of their steps each request's outbound body, timeout and
\* response depend only on its own input and on the backend's reply to its
\* own call, and no step of one request reads or changes anything of
\* another.
C19_Isolation == [](C19_OwnInputOnly) /\ [][C19_OneSlotPerStep]_vars

\* two requests with different ranges wait for the backend at the same time,
\* each with its own timeout
C19_Witness ==
    \E r \in Reqs : \E o \in Reqs \ {r} :
        /\ pc[r] = "waiting" /\ pc[o] = "waiting"
        /\ outbound[r].timeout = 15
        /\ outbound[o].timeout = 180
        /\ OutEnd(r) # OutEnd(o)


\* C20: client mistakes and backend failures are kept apart: a GET or POST
\* request answered without an outbound call having been issued, that is on
\* the caller's input alone, is answered 400, never 408, 500 or 503.
C20_NoCallMeans400 ==
    \A r \in Reqs :
        pc[r] = "done" /\ Proxied(request[r]) /\ calls[r] = 0 =>
            /\ Len(responses[r]) = 1
            /\ responses[r][1].status = 400

=============================================================================
